---- MODULE Spec2Model ----
(***************************************************************************)
(* Model of internal/protocol/xml/xmlutil/build.go: BuildXML and the       *)
(* recursive xmlBuilder (buildValue, buildStruct, buildList, buildMap,    *)
(* buildScalar).  The call BuildXML makes on the root value is run step   *)
(* by step (one struct field or one list item per step); every nested     *)
(* call is evaluated by the same step operators, iterated to completion.  *)
(***************************************************************************)
EXTENDS Integers, Sequences, FiniteSets, TLC

\* Bounds of the checked inputs.
MaxFields == 2
MaxLen == 2

(***************************************************************************)
(* reflect.StructTag: a sequence of <<key, value>> pairs.  Get returns    *)
(* the value of the first pair with the key, "" when there is none.       *)
(***************************************************************************)
RECURSIVE TagGet(_, _)
TagGet(tag, key) ==
    IF tag = <<>> THEN ""
    ELSE IF tag[1][1] = key THEN tag[1][2]
    ELSE TagGet(Tail(tag), key)

(***************************************************************************)
(* reflect.Value.  Every value is a record with a kind and a type; a      *)
(* pointer has elem, a slice isNil and items, a map isNil and len, a      *)
(* struct fields (each [name, tag, v, embedded]), a scalar its payload   *)
(* (s: string, n: integer, b: boolean, q: float in quarters, time).       *)
(***************************************************************************)
Invalid == [kind |-> "Invalid", type |-> ""]

IsValid(value) == value.kind # "Invalid"

\* elemOf: follow pointers; the Elem of a nil pointer is the invalid Value.
RECURSIVE elemOf(_)
elemOf(value) ==
    IF value.kind = "Ptr" THEN elemOf(value.elem) ELSE value

\* reflect.Type.Name(): "" for an unnamed composite type.
TypeName(value) ==
    IF value.kind \in {"Slice", "Map", "Ptr", "Invalid"} THEN "" ELSE value.type

\* The bytes of the strings the inputs use (Go strings are byte sequences).
StringBytes(s) ==
    CASE s = ""   -> <<>>
      [] s = "x"  -> <<120>>
      [] s = "a"  -> <<97>>
      [] s = "b"  -> <<98>>
      [] s = "hi" -> <<104, 105>>

Uint8(n) == [kind |-> "Uint8", type |-> "uint8", n |-> n]

\* reflect.Value.Len: defined for Slice, Map and String (Array, Chan unused).
CanLen(value) == value.kind \in {"Slice", "Map", "String"}

LenOf(value) ==
    CASE value.kind = "Slice"  -> Len(value.items)
      [] value.kind = "Map"    -> value.len
      [] value.kind = "String" -> Len(StringBytes(value.s))

\* reflect.Value.Index: defined for Slice and String; panics on a Map.
CanIndex(value) == value.kind \in {"Slice", "String"}

IndexOf(value, i) ==
    IF value.kind = "Slice" THEN value.items[i]
    ELSE Uint8(StringBytes(value.s)[i])

\* The first character of the field names the inputs use, and strings.ToLower
\* on it.
FirstChar(name) ==
    CASE name \in {"Name", "Note"}                     -> "N"
      [] name \in {"Id", "Inner", "Items"}             -> "I"
      [] name \in {"Attr"}                             -> "A"
      [] name \in {"Hdr"}                              -> "H"
      [] name \in {"Body", "Bdy", "Bad"}               -> "B"
      [] name \in {"M"}                                -> "M"
      [] name \in {"Tags", "T"}                        -> "T"
      [] name \in {"Count"}                            -> "C"
      [] name \in {"V"}                                -> "V"
      [] name \in {"SDKShapeTraits"}                   -> "S"
      [] name \in {"hidden"}                           -> "h"
      [] name \in {"metadataInput"}                    -> "m"
      [] name \in {"wall"}                             -> "w"
      [] name \in {"ext"}                              -> "e"
      [] name \in {"loc"}                              -> "l"

ToLower(c) ==
    CASE c = "N" -> "n" [] c = "I" -> "i" [] c = "A" -> "a" [] c = "H" -> "h"
      [] c = "B" -> "b" [] c = "M" -> "m" [] c = "T" -> "t" [] c = "C" -> "c"
      [] c = "V" -> "v" [] c = "S" -> "s" [] OTHER -> c

\* Type.FieldByName: a direct field, else a field promoted from an embedded
\* struct.  The result is a sequence: empty when there is no such field.
DirectField(value, name) ==
    SelectSeq(value.fields, LAMBDA f : f.name = name)

PromotedField(value, name) ==
    LET emb == SelectSeq(value.fields,
                   LAMBDA f : f.embedded /\ elemOf(f.v).kind = "Struct"
                              /\ DirectField(elemOf(f.v), name) # <<>>)
    IN IF emb = <<>> THEN <<>> ELSE DirectField(elemOf(emb[1].v), name)

FieldByName(value, name) ==
    IF DirectField(value, name) # <<>> THEN DirectField(value, name)
    ELSE PromotedField(value, name)

(***************************************************************************)
(* XMLNode: a name, children grouped by name (each group in insertion     *)
(* order), attributes in insertion order, text.                           *)
(***************************************************************************)
NewXMLElement(name) ==
    [name |-> name, children |-> <<>>, attr |-> <<>>, text |-> ""]

TextNode(name, text) ==
    [name |-> name, children |-> <<>>, attr |-> <<>>, text |-> text]

AddChild(n, child) ==
    [n EXCEPT !.children =
        IF child.name \in DOMAIN @
        THEN [@ EXCEPT ![child.name] = Append(@, child)]
        ELSE [k \in DOMAIN @ \cup {child.name} |->
                 IF k = child.name THEN <<child>> ELSE @[k]]]

\* The child added last under `name` is held by pointer: what is built into
\* it afterwards shows in the parent.
SetLastChild(n, child) ==
    [n EXCEPT !.children[child.name] =
        [@ EXCEPT ![Len(@)] = child]]

(***************************************************************************)
(* Scalar text forms (strconv, encoding/base64, time.Format).             *)
(***************************************************************************)
Digit(d) == <<"0", "1", "2", "3", "4", "5", "6", "7", "8", "9">>[d + 1]

RECURSIVE Decimal(_)
Decimal(n) ==
    IF n < 10 THEN Digit(n) ELSE Decimal(n \div 10) \o Digit(n % 10)

\* strconv.FormatInt(n, 10) and strconv.Itoa.
FormatInt(n) == IF n < 0 THEN "-" \o Decimal(0 - n) ELSE Decimal(n)

\* strconv.FormatBool.
FormatBool(b) == IF b THEN "true" ELSE "false"

\* strconv.FormatFloat(f, 'f', -1, bits).  A float of the inputs is a whole
\* number of quarters, v = q / 4, exact in both widths: the shortest decimal
\* that reads back is the integer part and, if any, the exact fraction.
FormatFloat(q) ==
    LET a == IF q < 0 THEN 0 - q ELSE q
        frac == <<"", ".25", ".5", ".75">>[(a % 4) + 1]
    IN (IF q < 0 THEN "-" ELSE "") \o Decimal(a \div 4) \o frac

\* base64.StdEncoding: 3 bytes to 4 characters, "=" padding.
B64Char(n) ==
    <<"A","B","C","D","E","F","G","H","I","J","K","L","M","N","O","P",
      "Q","R","S","T","U","V","W","X","Y","Z","a","b","c","d","e","f",
      "g","h","i","j","k","l","m","n","o","p","q","r","s","t","u","v",
      "w","x","y","z","0","1","2","3","4","5","6","7","8","9","+","/">>[n + 1]

RECURSIVE EncodeToString(_)
EncodeToString(bytes) ==
    IF Len(bytes) = 0 THEN ""
    ELSE IF Len(bytes) = 1 THEN
        B64Char(bytes[1] \div 4) \o B64Char((bytes[1] % 4) * 16) \o "=="
    ELSE IF Len(bytes) = 2 THEN
        B64Char(bytes[1] \div 4)
        \o B64Char((bytes[1] % 4) * 16 + bytes[2] \div 16)
        \o B64Char((bytes[2] % 16) * 4) \o "="
    ELSE
        B64Char(bytes[1] \div 4)
        \o B64Char((bytes[1] % 4) * 16 + bytes[2] \div 16)
        \o B64Char((bytes[2] % 16) * 4 + bytes[3] \div 64)
        \o B64Char(bytes[3] % 64)
        \o EncodeToString(SubSeq(bytes, 4, Len(bytes)))

\* time.Time.UTC() then Format("2006-01-02T15:04:05Z").  A time of the inputs
\* is [year, month, day, hour, min, sec, nsec, offset], offset in hours east
\* of UTC, with a day far enough from the month's ends that the shift to UTC
\* changes the day only.
Pad2(n) == IF n < 10 THEN "0" \o Decimal(n) ELSE Decimal(n)

UTC(t) ==
    LET h == t.hour - t.offset
    IN IF h < 0 THEN [t EXCEPT !.hour = h + 24, !.day = @ - 1, !.offset = 0]
       ELSE IF h > 23 THEN [t EXCEPT !.hour = h - 24, !.day = @ + 1, !.offset = 0]
       ELSE [t EXCEPT !.hour = h, !.offset = 0]

FormatISO8601UTC(t) ==
    Decimal(t.year) \o "-" \o Pad2(t.month) \o "-" \o Pad2(t.day) \o "T"
    \o Pad2(t.hour) \o ":" \o Pad2(t.min) \o ":" \o Pad2(t.sec) \o "Z"

(***************************************************************************)
(* Errors.  A panic of the reflect package (a struct or list operation on *)
(* a value of another kind) is kept apart from the two returned errors.   *)
(***************************************************************************)
NoErr == [kind |-> "nil", param |-> "", type |-> ""]
MapErr == [kind |-> "maps are not supported for this protocol",
           param |-> "", type |-> ""]
ScalarErr(param, type) ==
    [kind |-> "unsupported value for param", param |-> param, type |-> type]
Panic == [kind |-> "panic", param |-> "", type |-> ""]

\* What a build function hands back: the node it was given, as it left it,
\* the builder's namespaces and the error.
Result(current, ns, err) == [cur |-> current, ns |-> ns, err |-> err]

(***************************************************************************)
(* buildMap and buildScalar.                                              *)
(***************************************************************************)
\* buildMap as it would be if a map were skipped without an error.
buildMapSkips(value, current, tag, ns) == Result(current, ns, NoErr)

buildMap(value, current, tag, ns) == Result(current, ns, MapErr)

\* The type switch without its case for int.
ScalarTypesNarrow ==
    {"string", "[]uint8", "bool", "int64", "float64", "float32", "time.Time"}

\* The type switch of buildScalar: the types with a text form.
ScalarTypes ==
    {"string", "[]uint8", "bool", "int64", "int", "float64", "float32",
     "time.Time"}

ScalarText(value) ==
    CASE value.type = "string"    -> value.s
      [] value.type = "[]uint8"   ->
            EncodeToString([i \in 1..Len(value.items) |-> value.items[i].n])
      [] value.type = "bool"      -> FormatBool(value.b)
      [] value.type = "int64"     -> FormatInt(value.n)
      [] value.type = "int"       -> FormatInt(value.n)
      [] value.type = "float64"   -> FormatFloat(value.q)
      [] value.type = "float32"   -> FormatFloat(value.q)
      [] value.type = "time.Time" -> FormatISO8601UTC(UTC(value.time))

\* The test of xmlAttribute as it would be if the tag were never honoured.
IsAttributeNever(tag) == FALSE

IsAttribute(tag) == TagGet(tag, "xmlAttribute") # ""

buildScalar(value, current, tag, ns) ==
    IF value.type \notin ScalarTypes
    THEN Result(current, ns, ScalarErr(TagGet(tag, "locationName"), TypeName(value)))
    ELSE LET str == ScalarText(value)
             xname == TagGet(tag, "locationName")
         IN IF IsAttribute(tag)
            THEN Result([current EXCEPT !.attr = Append(@, <<xname, str>>)], ns, NoErr)
            ELSE Result(AddChild(current, TextNode(xname, str)), ns, NoErr)

(***************************************************************************)
(* buildValue, buildStruct and buildList.  A call that loops is a frame:  *)
(* the function's locals.  Enter runs the function up to its loop and     *)
(* either returns at once (done) or hands back the frame; Step runs one   *)
(* iteration; Exit runs what follows the loop.                            *)
(***************************************************************************)
RECURSIVE buildValue(_, _, _, _)

Returned(res) == [done |-> TRUE, res |-> res]
Entered(fr) == [done |-> FALSE, fr |-> fr]

\* b.namespaces[prefix] = uri
Register(ns, prefix, uri) ==
    [k \in DOMAIN ns \cup {prefix} |-> IF k = prefix THEN uri ELSE ns[k]]

\* The xmlns attribute of a structure carrying xmlURI.
NamespaceAttr(tag) ==
    IF TagGet(tag, "xmlURI") = "" THEN <<>>
    ELSE IF TagGet(tag, "xmlPrefix") # ""
         THEN << <<"xmlns:" \o TagGet(tag, "xmlPrefix"), TagGet(tag, "xmlURI")>> >>
         ELSE << <<"xmlns", TagGet(tag, "xmlURI")>> >>

NamespacesAfter(tag, ns) ==
    IF TagGet(tag, "xmlURI") # "" /\ TagGet(tag, "xmlPrefix") # ""
    THEN Register(ns, TagGet(tag, "xmlPrefix"), TagGet(tag, "xmlURI"))
    ELSE ns

\* The payload field's tag and value, when the tag names a payload.
PayloadTag(value, tag) ==
    LET field == FieldByName(value, TagGet(tag, "payload"))
    IN IF field = <<>> THEN <<>> ELSE field[1].tag

PayloadValue(value, tag) ==
    LET field == FieldByName(value, TagGet(tag, "payload"))
    IN IF field = <<>> THEN Invalid ELSE elemOf(field[1].v)

StructFrame(value, current, tag, ns) ==
    [fn |-> "buildStruct", value |-> value, tag |-> tag, current |-> current,
     child |-> [NewXMLElement(TagGet(tag, "locationName"))
                   EXCEPT !.attr = NamespaceAttr(tag)],
     i |-> 1, fieldAdded |-> FALSE,
     ns |-> NamespacesAfter(tag, ns), err |-> NoErr]

\* buildStruct up to its loop.  FieldByName and NumField panic on a value
\* that is no struct.
StructEnter(value, current, tag, ns) ==
    IF ~IsValid(value) THEN Returned(Result(current, ns, NoErr))
    ELSE IF TagGet(tag, "payload") # ""
    THEN IF value.kind # "Struct" THEN Returned(Result(current, ns, Panic))
         ELSE IF ~IsValid(PayloadValue(value, tag))
         THEN Returned(Result(current, ns, NoErr))
         ELSE IF PayloadValue(value, tag).kind # "Struct"
         THEN Returned(Result(current, NamespacesAfter(PayloadTag(value, tag), ns), Panic))
         ELSE Entered(StructFrame(PayloadValue(value, tag), current,
                                  PayloadTag(value, tag), ns))
    ELSE IF value.kind # "Struct"
    THEN Returned(Result(current, NamespacesAfter(tag, ns), Panic))
    ELSE Entered(StructFrame(value, current, tag, ns))

Unexported(name) == ToLower(FirstChar(name)) = FirstChar(name)

\* A member with a location is not a body member.
NonBody(mTag) == TagGet(mTag, "location") # ""

\* The member's tag, its locationName defaulted to the field's name.
MemberTag(field) ==
    IF TagGet(field.tag, "locationName") = ""
    THEN field.tag \o << <<"locationName", field.name>> >>
    ELSE field.tag

\* The loop as it would be without `if err != nil { return err }`.
AfterMemberAbortLost(fr, r) ==
    [fr EXCEPT !.child = r.cur, !.ns = r.ns, !.fieldAdded = TRUE, !.i = @ + 1]

\* What the loop does with the result of building one member.
AfterMember(fr, r) ==
    IF r.err # NoErr
    THEN [fr EXCEPT !.child = r.cur, !.ns = r.ns, !.err = r.err]
    ELSE [fr EXCEPT !.child = r.cur, !.ns = r.ns, !.fieldAdded = TRUE, !.i = @ + 1]

StructLoopDone(fr) == fr.err # NoErr \/ fr.i > Len(fr.value.fields)

StructFieldStep(fr) ==
    LET field == fr.value.fields[fr.i]
    IN IF Unexported(field.name) THEN [fr EXCEPT !.i = @ + 1]
       ELSE IF NonBody(field.tag) THEN [fr EXCEPT !.i = @ + 1]
       ELSE AfterMember(fr, buildValue(elemOf(field.v), fr.child,
                                       MemberTag(field), fr.ns))

RECURSIVE StructLoop(_)
StructLoop(fr) ==
    IF StructLoopDone(fr) THEN fr ELSE StructLoop(StructFieldStep(fr))

StructExit(fr) ==
    IF fr.err # NoErr THEN Result(fr.current, fr.ns, fr.err)
    ELSE IF fr.fieldAdded THEN Result(AddChild(fr.current, fr.child), fr.ns, NoErr)
    ELSE Result(fr.current, fr.ns, NoErr)

buildStruct(value, current, tag, ns) ==
    LET e == StructEnter(value, current, tag, ns)
    IN IF e.done THEN e.res ELSE StructExit(StructLoop(e.fr))

Flattened(tag) == TagGet(tag, "flattened") # ""

\* The member name as it would be without the "member" default.
ItemNameNoDefault(tag) == TagGet(tag, "locationNameList")

\* The name of a member of a list that is not flattened.
ItemName(tag) ==
    IF TagGet(tag, "locationNameList") = "" THEN "member"
    ELSE TagGet(tag, "locationNameList")

\* `list`: the wrapper, the child added last under the list's name.
ListOf(fr) ==
    LET group == fr.current.children[TagGet(fr.tag, "locationName")]
    IN group[Len(group)]

\* buildList up to its loop.  Len panics on a value with no length.
ListEnter(value, current, tag, ns) ==
    LET cur == IF Flattened(tag) THEN current
               ELSE AddChild(current, NewXMLElement(TagGet(tag, "locationName")))
    IN IF ~CanLen(value) THEN Returned(Result(cur, ns, Panic))
       ELSE Entered([fn |-> "buildList", value |-> value, tag |-> tag,
                     current |-> cur, i |-> 1, ns |-> ns, err |-> NoErr])

ListLoopDone(fr) == fr.err # NoErr \/ fr.i > LenOf(fr.value)

\* The item's element is added to its parent first and built into after;
\* Index panics on a map.
ItemResult(fr, child) ==
    IF ~CanIndex(fr.value) THEN Result(child, fr.ns, Panic)
    ELSE buildValue(IndexOf(fr.value, fr.i), child, <<>>, fr.ns)

AfterItem(fr, cur, r) ==
    IF r.err # NoErr
    THEN [fr EXCEPT !.current = cur, !.ns = r.ns, !.err = r.err]
    ELSE [fr EXCEPT !.current = cur, !.ns = r.ns, !.i = @ + 1]

ListItemStep(fr) ==
    IF Flattened(fr.tag)
    THEN LET child == NewXMLElement(TagGet(fr.tag, "locationName"))
             r == ItemResult(fr, child)
         IN AfterItem(fr, SetLastChild(AddChild(fr.current, child), r.cur), r)
    ELSE LET child == NewXMLElement(ItemName(fr.tag))
             r == ItemResult(fr, child)
             list == SetLastChild(AddChild(ListOf(fr), child), r.cur)
         IN AfterItem(fr, SetLastChild(fr.current, list), r)

RECURSIVE ListLoop(_)
ListLoop(fr) ==
    IF ListLoopDone(fr) THEN fr ELSE ListLoop(ListItemStep(fr))

ListExit(fr) == Result(fr.current, fr.ns, fr.err)

buildList(value, current, tag, ns) ==
    LET e == ListEnter(value, current, tag, ns)
    IN IF e.done THEN e.res ELSE ListExit(ListLoop(e.fr))

\* The kind buildValue resolves: the tag's type, else the value's shape.
ResolveType(value, tag) ==
    IF TagGet(tag, "type") # "" THEN TagGet(tag, "type")
    ELSE CASE value.kind = "Struct" -> "structure"
           [] value.kind = "Slice"  -> "list"
           [] value.kind = "Map"    -> "map"
           [] OTHER                 -> ""

\* The tag of a structure: its own, then the tag of its SDKShapeTraits field.
TraitsTag(value, tag) ==
    LET field == FieldByName(value, "SDKShapeTraits")
    IN IF field = <<>> THEN tag ELSE tag \o field[1].tag

\* buildValue on a dereferenced value, up to the loop of the function it
\* dispatches to.  Type().FieldByName panics on a type that is no struct.
Dispatch(value, current, tag, ns) ==
    IF ~IsValid(value) THEN Returned(Result(current, ns, NoErr))
    ELSE IF NonBody(tag) THEN Returned(Result(current, ns, NoErr))
    ELSE CASE ResolveType(value, tag) = "structure" ->
                IF value.kind # "Struct" THEN Returned(Result(current, ns, Panic))
                ELSE StructEnter(value, current, TraitsTag(value, tag), ns)
           [] ResolveType(value, tag) = "list" ->
                ListEnter(value, current, tag, ns)
           [] ResolveType(value, tag) = "map" ->
                Returned(buildMap(value, current, tag, ns))
           [] OTHER ->
                Returned(buildScalar(value, current, tag, ns))

buildValue(value, current, tag, ns) ==
    LET e == Dispatch(elemOf(value), current, tag, ns)
    IN IF e.done THEN e.res
       ELSE IF e.fr.fn = "buildStruct" THEN StructExit(StructLoop(e.fr))
       ELSE ListExit(ListLoop(e.fr))

(***************************************************************************)
(* The values BuildXML is given.                                          *)
(***************************************************************************)
Ptr(v) == [kind |-> "Ptr", type |-> "*", elem |-> v]
NilPtr == [kind |-> "Ptr", type |-> "*", elem |-> Invalid]
Str(s) == [kind |-> "String", type |-> "string", s |-> s]
Named(s) == [kind |-> "String", type |-> "MyString", s |-> s]
Bool(b) == [kind |-> "Bool", type |-> "bool", b |-> b]
Int64(n) == [kind |-> "Int64", type |-> "int64", n |-> n]
GoInt(n) == [kind |-> "Int", type |-> "int", n |-> n]
Int32(n) == [kind |-> "Int32", type |-> "int32", n |-> n]
Int16(n) == [kind |-> "Int16", type |-> "int16", n |-> n]
Int8(n) == [kind |-> "Int8", type |-> "int8", n |-> n]
Uint64(n) == [kind |-> "Uint64", type |-> "uint64", n |-> n]
Float64(q) == [kind |-> "Float64", type |-> "float64", q |-> q]
Float32(q) == [kind |-> "Float32", type |-> "float32", q |-> q]
Slice(items) ==
    [kind |-> "Slice", type |-> "[]", isNil |-> FALSE, items |-> items]
NilSlice == [kind |-> "Slice", type |-> "[]", isNil |-> TRUE, items |-> <<>>]
Bytes(bs) ==
    [kind |-> "Slice", type |-> "[]uint8", isNil |-> FALSE,
     items |-> [i \in 1..Len(bs) |-> Uint8(bs[i])]]
Map(n) == [kind |-> "Map", type |-> "map[string]", isNil |-> FALSE, len |-> n]
NilMap == [kind |-> "Map", type |-> "map[string]", isNil |-> TRUE, len |-> 0]
Field(name, tag, v) ==
    [name |-> name, tag |-> tag, v |-> v, embedded |-> FALSE]
Struct(type, fields) == [kind |-> "Struct", type |-> type, fields |-> fields]
\* An embedded metadata struct holding the SDKShapeTraits field.
Traits(tag) ==
    [name |-> "metadataInput", tag |-> <<>>, embedded |-> TRUE,
     v |-> Struct("metadataInput", <<Field("SDKShapeTraits", tag, Bool(FALSE))>>)]
\* time.Time: a struct of three unexported fields.
Time(t) ==
    [kind |-> "Struct", type |-> "time.Time",
     fields |-> <<Field("wall", <<>>, Uint64(0)), Field("ext", <<>>, Int64(0)),
                  Field("loc", <<>>, NilPtr)>>,
     time |-> t]

Noon == [year |-> 2021, month |-> 3, day |-> 4, hour |-> 15, min |-> 0,
         sec |-> 0, nsec |-> 0, offset |-> 0]
Late == [year |-> 2021, month |-> 3, day |-> 4, hour |-> 1, min |-> 7,
         sec |-> 9, nsec |-> 500, offset |-> 2]

Inner == Struct("Inner", <<Field("Name", << <<"locationName", "Name">> >>, Ptr(Str("x")))>>)
InnerNil == Struct("Inner", <<Field("Id", << <<"locationName", "Id">> >>, NilPtr)>>)
InnerNs ==
    Struct("Inner", <<Field("Name", << <<"locationName", "Name">> >>, Ptr(Str("x"))),
                      Traits(<< <<"xmlURI", "urn:i">> >>)>>)

fName == Field("Name", << <<"locationName", "Name">> >>, Ptr(Str("x")))
fId == Field("Id", << <<"locationName", "Id">> >>, NilPtr)
fAttr ==
    Field("Attr", << <<"locationName", "attr">>, <<"xmlAttribute", "true">> >>,
          Ptr(Str("a")))
fHdr ==
    Field("Hdr", << <<"location", "header">>, <<"locationName", "X-Hdr">> >>,
          Ptr(Str("hi")))
fBdy ==
    Field("Bdy", << <<"location", "body">>, <<"locationName", "Bdy">> >>,
          Ptr(Str("b")))
fHidden == Field("hidden", <<>>, Str("x"))
fM == Field("M", << <<"locationName", "M">> >>, Map(1))
fBad == Field("Bad", <<>>, Ptr(Int32(5)))
fInner ==
    Field("Inner", << <<"locationName", "Inner">>, <<"type", "structure">> >>,
          Ptr(Inner))
fNote == Field("Note", << <<"locationName", "Note">> >>, Ptr(InnerNil))
fCount == Field("Count", <<>>, Ptr(Int64(0 - 42)))
fTags ==
    Field("Tags", << <<"locationName", "Tag">>, <<"flattened", "true">> >>,
          Slice(<<Ptr(Str("a")), Ptr(Str("b"))>>))

fDeep ==
    Field("T", << <<"locationName", "Deep">> >>, Ptr(Struct("Deep", <<fName, fM>>)))

CoreFields ==
    {fName, fId, fAttr, fHdr, fBdy, fHidden, fM, fBad, fInner, fNote, fCount,
     fTags, fDeep}

\* Sequences of at most n members of S, of exactly n, with distinct names.
SeqsOf(S, n) == UNION {[1..k -> S] : k \in 0..n}

DistinctNames(fields) ==
    \A i, j \in DOMAIN fields : fields[i].name = fields[j].name => i = j

RootTraits ==
    {<<>>,
     <<Traits(<< <<"type", "structure">>, <<"xmlURI", "urn:x">> >>)>>,
     <<Traits(<< <<"locationName", "Req">>, <<"xmlPrefix", "p">>,
                 <<"xmlURI", "urn:x">> >>)>>}

\* Structures of up to MaxFields members, with or without shape traits.
StructParams ==
    {Ptr(Struct("Input", fs \o tr)) :
        fs \in {s \in SeqsOf(CoreFields, MaxFields) : DistinctNames(s)},
        tr \in RootTraits}

\* Lists of up to MaxLen items, as a member and as the root value.
Items ==
    {Ptr(Str("a")), Ptr(Str("b")), NilPtr, Map(0), Ptr(Inner), Int32(5)}

Lists == {NilSlice} \cup {Slice(s) : s \in SeqsOf(Items, MaxLen)}

ListTags ==
    {<< <<"locationName", "Item">>, <<"flattened", "true">> >>,
     << <<"locationName", "Items">> >>,
     << <<"locationName", "Items">>, <<"locationNameList", "item">> >>}

ListParams ==
    {Ptr(Struct("Input", pre \o <<Field("Items", tag, l)>> \o post)) :
        pre \in {<<>>, <<fName>>}, post \in {<<>>, <<fCount>>},
        tag \in ListTags, l \in Lists}
    \cup Lists

\* One scalar member of each type, as an element and as an attribute.
Scalars ==
    {<<Str("x"), <<>>>>, <<Ptr(Str("hi")), <<>>>>, <<Str(""), <<>>>>,
     <<Bytes(<<104, 105>>), << <<"type", "blob">> >>>>,
     <<Bytes(<<104>>), << <<"type", "blob">> >>>>,
     <<Bytes(<<104, 105, 33, 255>>), << <<"type", "blob">> >>>>,
     <<Bytes(<<104, 105>>), <<>>>>,
     <<Bool(TRUE), <<>>>>, <<Ptr(Bool(FALSE)), <<>>>>,
     <<Int64(0 - 42), <<>>>>, <<Int64(0), <<>>>>, <<GoInt(1207), <<>>>>,
     <<Float64(6), <<>>>>, <<Float64(0 - 1), <<>>>>, <<Float64(8), <<>>>>,
     <<Float32(3), <<>>>>,
     <<Time(Noon), << <<"type", "timestamp">> >>>>,
     <<Ptr(Time(Late)), << <<"type", "timestamp">> >>>>,
     <<Time(Noon), <<>>>>,
     <<Inner, << <<"type", "timestamp">> >>>>,
     <<Int32(5), <<>>>>, <<Int16(5), <<>>>>, <<Int8(5), <<>>>>,
     <<Uint8(5), <<>>>>, <<Uint64(5), <<>>>>, <<Named("x"), <<>>>>}

ScalarPlaces ==
    {<<>>, << <<"xmlAttribute", "true">> >>, << <<"locationName", "val">> >>,
     << <<"locationName", "val">>, <<"xmlAttribute", "true">> >>}

ScalarParams ==
    {Ptr(Struct("Input", pre \o <<Field("V", sc[2] \o pl, sc[1])>>)) :
        pre \in {<<>>, <<fName>>}, sc \in Scalars, pl \in ScalarPlaces}
    \cup {sc[1] : sc \in {x \in Scalars : x[2] = <<>>}}

\* Structures whose traits name a payload member.
PayloadBodies ==
    {<<Field("Body", << <<"locationName", "Config">> >>, Ptr(Inner))>>,
     <<Field("Body", << <<"locationName", "Config">>, <<"type", "structure">> >>,
             Ptr(InnerNs))>>,
     <<Field("Body", <<>>, Ptr(Inner))>>,
     <<Field("Body", << <<"locationName", "Config">> >>, NilPtr)>>,
     <<Field("Body", << <<"locationName", "Config">> >>, Ptr(Str("x")))>>,
     <<Field("Body", << <<"locationName", "Config">>, <<"type", "blob">> >>,
             Bytes(<<104, 105>>))>>,
     <<Field("Body", << <<"locationName", "Config">> >>,
             Slice(<<Ptr(Str("a"))>>))>>,
     <<Field("Body", << <<"locationName", "Config">> >>, Map(1))>>,
     <<>>}

PayloadParams ==
    {Ptr(Struct("Input",
            pre \o body \o post
            \o <<Traits(<< <<"type", "structure">>, <<"payload", "Body">> >>)>>)) :
        pre \in {<<>>, <<fHdr>>, <<fM>>}, body \in PayloadBodies,
        post \in {<<>>, <<fName>>}}

\* Members whose tag gives a type other than the value's shape.
OverrideFields ==
    {Field("V", << <<"type", "structure">> >>, Ptr(Str("x"))),
     Field("V", << <<"type", "structure">> >>, Map(1)),
     Field("V", << <<"type", "structure">> >>, Ptr(Inner)),
     Field("V", << <<"type", "list">> >>, Map(0)),
     Field("V", << <<"type", "list">> >>, Map(1)),
     Field("V", << <<"type", "list">>, <<"flattened", "true">> >>, Map(1)),
     Field("V", << <<"type", "list">> >>, Str("hi")),
     Field("V", << <<"type", "list">> >>, Bool(TRUE)),
     Field("V", << <<"type", "list">>, <<"flattened", "true">> >>, Bool(TRUE)),
     Field("V", << <<"type", "map">> >>, Ptr(Inner)),
     Field("V", << <<"type", "map">> >>, NilMap),
     Field("V", <<>>, NilMap),
     Field("V", << <<"type", "string">> >>, Map(1))}

OverrideParams ==
    {Ptr(Struct("Input", pre \o <<f>>)) :
        pre \in {<<>>, <<fName>>}, f \in OverrideFields}

Params ==
    StructParams \cup ListParams \cup ScalarParams \cup PayloadParams
    \cup OverrideParams \cup {NilPtr, Invalid, Map(1), NilMap, Inner, Ptr(Ptr(Inner))}

(***************************************************************************)
(* BuildXML.  Init is the state at line 16: the builder and the root      *)
(* element exist and buildValue is about to be called on params.          *)
(***************************************************************************)
VARIABLES params, pc, frame, result, written

vars == <<params, pc, frame, result, written>>

NoFrame == [fn |-> "none"]

Init ==
    /\ params \in Params
    /\ pc = "buildValue"
    /\ frame = NoFrame
    /\ result = Result(NewXMLElement(""), <<>>, NoErr)
    /\ written = <<>>

\* b.buildValue(reflect.ValueOf(params), root, ""), up to the loop of the
\* function it dispatches to.
BuildValueCall ==
    /\ pc = "buildValue"
    /\ LET e == Dispatch(elemOf(params), result.cur, <<>>, result.ns)
       IN IF e.done
          THEN /\ pc' = "return"
               /\ result' = e.res
               /\ frame' = NoFrame
          ELSE /\ pc' = e.fr.fn
               /\ frame' = e.fr
               /\ result' = result
    /\ UNCHANGED <<params, written>>

\* One iteration of buildStruct's loop over the root structure's fields.
StructField ==
    /\ pc = "buildStruct"
    /\ ~StructLoopDone(frame)
    /\ frame' = StructFieldStep(frame)
    /\ UNCHANGED <<params, pc, result, written>>

\* buildStruct returns to buildValue, which returns to BuildXML.
StructReturn ==
    /\ pc = "buildStruct"
    /\ StructLoopDone(frame)
    /\ result' = StructExit(frame)
    /\ frame' = NoFrame
    /\ pc' = "return"
    /\ UNCHANGED <<params, written>>

\* One iteration of buildList's loop over the root list's items.
ListItem ==
    /\ pc = "buildList"
    /\ ~ListLoopDone(frame)
    /\ frame' = ListItemStep(frame)
    /\ UNCHANGED <<params, pc, result, written>>

ListReturn ==
    /\ pc = "buildList"
    /\ ListLoopDone(frame)
    /\ result' = ListExit(frame)
    /\ frame' = NoFrame
    /\ pc' = "return"
    /\ UNCHANGED <<params, written>>

\* StructToXML(e, v, false): the element is handed to the encoder.
StructToXML(sink, v) == Append(sink, v)

\* BuildXML after buildValue: return the error, or hand the first child of
\* the first group of root.Children (a map: any group may come first) to
\* the encoder.
BuildXMLReturn ==
    /\ pc = "return"
    /\ pc' = "done"
    /\ IF result.err # NoErr THEN written' = written
       ELSE IF DOMAIN result.cur.children = {} THEN written' = written
       ELSE \E k \in DOMAIN result.cur.children :
               written' = StructToXML(written, result.cur.children[k][1])
    /\ UNCHANGED <<params, frame, result>>

Next ==
    \/ BuildValueCall
    \/ StructField
    \/ StructReturn
    \/ ListItem
    \/ ListReturn
    \/ BuildXMLReturn

Spec == Init /\ [][Next]_vars

(***************************************************************************)
(* What the properties below speak of.                                    *)
(***************************************************************************)
Loops == {"buildStruct", "buildList"}

\* The root element and the error in flight, wherever the build stands.
Root == IF pc \in Loops THEN frame.current ELSE result.cur
Err == IF pc \in Loops THEN frame.err ELSE result.err

\* The step is one iteration of the root structure's loop, on CurField.
FieldStep == pc = "buildStruct" /\ pc' = "buildStruct"
CurField == frame.value.fields[frame.i]
CurMember == elemOf(CurField.v)
CurName ==
    IF TagGet(CurField.tag, "locationName") = "" THEN CurField.name
    ELSE TagGet(CurField.tag, "locationName")

\* The step is one iteration of the root list's loop, on CurItem.
ItemStep == pc = "buildList" /\ pc' = "buildList"
CurItem == elemOf(IndexOf(frame.value, frame.i))

\* The children of a node under a name; the number of its children.
GroupOf(node, name) ==
    IF name \in DOMAIN node.children THEN node.children[name] ELSE <<>>

RECURSIVE CountIn(_, _)
CountIn(node, names) ==
    IF names = {} THEN 0
    ELSE LET k == CHOOSE x \in names : TRUE
         IN Len(node.children[k]) + CountIn(node, names \ {k})

ChildCount(node) == CountIn(node, DOMAIN node.children)

\* `after` is `before` with the nodes of `added` appended under `name` and
\* nothing else changed.
AddedUnder(before, after, name, added) ==
    /\ after.name = before.name
    /\ after.attr = before.attr
    /\ after.text = before.text
    /\ GroupOf(after, name) = GroupOf(before, name) \o added
    /\ \A k \in (DOMAIN after.children \cup DOMAIN before.children) \ {name} :
          GroupOf(after, k) = GroupOf(before, k)

\* A nil pointer, a nil interface, a nil slice.
IsNilValue(value) ==
    \/ ~IsValid(elemOf(value))
    \/ elemOf(value).kind = "Slice" /\ elemOf(value).isNil

\* The field is a member of the body as the specification words it: exported,
\* with no location or the location "body".
BodyLocated(field) == TagGet(field.tag, "location") \in {"", "body"}

\* No field of the structure contributes body content: each is unexported,
\* located outside the body, or a nil pointer.
NoBodyContent(value) ==
    \A i \in DOMAIN value.fields :
        \/ Unexported(value.fields[i].name)
        \/ ~BodyLocated(value.fields[i])
        \/ ~IsValid(elemOf(value.fields[i].v))

\* The structure's traits name no payload.
NoPayload(value) == TagGet(TraitsTag(value, <<>>), "payload") = ""

(***************************************************************************)
(* C1.  buildStruct attaches the structure's element to its parent only   *)
(* if a field produced a child node; a structure whose fields are all     *)
(* non-body, unexported or nil yields no element.                         *)
(***************************************************************************)
C1_ElidedWhenNoContent ==
    [][(pc = "buildStruct" /\ pc' = "return" /\ frame.err = NoErr) =>
          /\ result'.cur # frame.current => ChildCount(frame.child) > 0
          /\ NoBodyContent(frame.value) => result'.cur = frame.current]_vars

(***************************************************************************)
(* C2.  One BuildXML call hands at most one element to the sink, none     *)
(* when no field of the root produced a body-located element, and none    *)
(* when the build returns an error.                                       *)
(***************************************************************************)
C2_AtMostOneElement ==
    /\ Len(written) <= 1
    /\ Err # NoErr => written = <<>>
    /\ (/\ pc = "done"
        /\ elemOf(params).kind = "Struct"
        /\ NoPayload(elemOf(params))
        /\ NoBodyContent(elemOf(params))) => written = <<>>

(***************************************************************************)
(* C3.  A field is built exactly when its location is absent, empty or    *)
(* "body": a field located "body" is built as the same field with no      *)
(* location is, and a field with another location adds nothing.           *)
(***************************************************************************)
WithoutLocation(tag) == SelectSeq(tag, LAMBDA kv : kv[1] # "location")

C3_BodyLocationBuilt ==
    [][(FieldStep /\ ~Unexported(CurField.name)) =>
          IF BodyLocated(CurField)
          THEN frame' = AfterMember(frame,
                            buildValue(CurMember, frame.child,
                                       WithoutLocation(MemberTag(CurField)),
                                       frame.ns))
          ELSE frame'.child = frame.child /\ frame'.current = frame.current]_vars

(***************************************************************************)
(* C5.  Payload unwrapping: building a structure whose traits name a      *)
(* payload field gives the tree and the outcome of building that field's  *)
(* value directly at the parent's position under the field's own tag.     *)
(***************************************************************************)
PayloadField(value) ==
    FieldByName(value, TagGet(TraitsTag(value, <<>>), "payload"))

DirectBuild(value) ==
    IF PayloadField(value) = <<>> THEN Result(NewXMLElement(""), <<>>, NoErr)
    ELSE buildValue(PayloadField(value)[1].v, NewXMLElement(""),
                    PayloadField(value)[1].tag, <<>>)

C5_PayloadAsDirectBuild ==
    (/\ pc \in {"return", "done"}
     /\ elemOf(params).kind = "Struct"
     /\ ~NoPayload(elemOf(params))) =>
        /\ result.cur = DirectBuild(elemOf(params)).cur
        /\ result.err = DirectBuild(elemOf(params)).err

(***************************************************************************)
(* C8.  Building a nil or absent value (nil pointer, nil list, absent     *)
(* structure) as the root, a structure field or a list item succeeds and  *)
(* leaves the tree as it was.                                             *)
(***************************************************************************)
C8_NilLeavesTreeUnchanged ==
    [][/\ (pc = "buildValue" /\ IsNilValue(params)) =>
              pc' = "return" /\ result' = result
       /\ (FieldStep /\ ~Unexported(CurField.name) /\ BodyLocated(CurField)
              /\ IsNilValue(CurField.v)) =>
              /\ frame'.err = NoErr
              /\ frame'.child = frame.child
              /\ frame'.current = frame.current
       /\ (ItemStep /\ CanIndex(frame.value)
              /\ IsNilValue(IndexOf(frame.value, frame.i))) =>
              /\ frame'.err = NoErr
              /\ frame'.current = frame.current]_vars

(***************************************************************************)
(* C4.  A list of N items built with no error: flattened, N elements      *)
(* named locationName are added under the parent, in item order, and no   *)
(* wrapper; not flattened, one wrapper named locationName is added and    *)
(* holds N children, in item order, named locationNameList or "member".   *)
(***************************************************************************)
\* The element of an item: what building the item into a fresh element of
\* that name gives.
ItemElement(item, name) == buildValue(item, NewXMLElement(name), <<>>, <<>>).cur

ItemElements(list, name) ==
    [k \in 1..Len(list.items) |-> ItemElement(list.items[k], name)]

MemberNameOf(tag) ==
    IF TagGet(tag, "locationNameList") = "" THEN "member"
    ELSE TagGet(tag, "locationNameList")

\* `w` is the wrapper of the list: named, bare, holding the items' elements.
IsWrapper(w, list, name, tag) ==
    /\ w.name = name
    /\ w.attr = <<>>
    /\ w.text = ""
    /\ ChildCount(w) = Len(list.items)
    /\ GroupOf(w, MemberNameOf(tag)) = ItemElements(list, MemberNameOf(tag))
    /\ \A k \in 1..Len(list.items) :
          GroupOf(w, MemberNameOf(tag))[k].name = MemberNameOf(tag)

ListShape(before, after, list, name, tag) ==
    IF TagGet(tag, "flattened") # ""
    THEN /\ AddedUnder(before, after, name, ItemElements(list, name))
         /\ \A k \in 1..Len(list.items) :
               GroupOf(after, name)[Len(GroupOf(before, name)) + k].name = name
    ELSE /\ Len(GroupOf(after, name)) = Len(GroupOf(before, name)) + 1
         /\ AddedUnder(before, after, name,
                       <<GroupOf(after, name)[Len(GroupOf(after, name))]>>)
         /\ IsWrapper(GroupOf(after, name)[Len(GroupOf(after, name))],
                      list, name, tag)

\* The member is a list that buildValue hands to buildList.
ListMember(field) ==
    /\ ~Unexported(field.name)
    /\ TagGet(field.tag, "location") = ""
    /\ elemOf(field.v).kind = "Slice"
    /\ ResolveType(elemOf(field.v), field.tag) = "list"

C4_ListShape ==
    [][/\ (FieldStep /\ ListMember(CurField) /\ frame'.err = NoErr) =>
              ListShape(frame.child, frame'.child, CurMember, CurName,
                        CurField.tag)
       /\ (pc = "buildList" /\ pc' = "return" /\ frame.err = NoErr
              /\ frame.value.kind = "Slice") =>
              ListShape(NewXMLElement(""), result'.cur, frame.value, "",
                        frame.tag)]_vars

C4_Witness ==
    /\ pc = "buildStruct"
    /\ frame.err = NoErr
    /\ frame.i > 1
    /\ ListMember(frame.value.fields[frame.i - 1])
    /\ TagGet(frame.value.fields[frame.i - 1].tag, "flattened") # ""
    /\ Len(elemOf(frame.value.fields[frame.i - 1].v).items) = MaxLen
    /\ Len(GroupOf(frame.child, "Item")) = MaxLen

(***************************************************************************)
(* C9.  A scalar field with xmlAttribute adds its (locationName, text)    *)
(* pair to the attributes of the enclosing structure's element and no     *)
(* child; one without adds one text leaf named locationName and no        *)
(* attribute.  Nothing else changes.                                      *)
(***************************************************************************)
\* The types with a text form.
TextTypes ==
    {"string", "[]uint8", "bool", "int", "int64", "float32", "float64",
     "time.Time"}

\* The member is present and buildValue hands it to buildScalar.
ScalarMember(field) ==
    /\ ~Unexported(field.name)
    /\ TagGet(field.tag, "location") = ""
    /\ IsValid(elemOf(field.v))
    /\ ResolveType(elemOf(field.v), field.tag) \notin {"structure", "list", "map"}

C9_AttributePlacement ==
    [][(FieldStep /\ ScalarMember(CurField) /\ CurMember.type \in TextTypes) =>
          /\ frame'.err = NoErr
          /\ frame'.current = frame.current
          /\ IF TagGet(CurField.tag, "xmlAttribute") # ""
             THEN /\ frame'.child.attr =
                        Append(frame.child.attr, <<CurName, ScalarText(CurMember)>>)
                  /\ frame'.child.children = frame.child.children
                  /\ frame'.child.text = frame.child.text
             ELSE AddedUnder(frame.child, frame'.child, CurName,
                             <<TextNode(CurName, ScalarText(CurMember))>>)]_vars

C9_Witness ==
    /\ pc = "buildStruct"
    /\ frame.err = NoErr
    /\ frame.i > 1
    /\ ScalarMember(frame.value.fields[frame.i - 1])
    /\ TagGet(frame.value.fields[frame.i - 1].tag, "xmlAttribute") # ""
    /\ Len(frame.child.attr) > 0
    /\ ChildCount(frame.child) = 0

(***************************************************************************)
(* C7.  buildScalar succeeds with exactly one text value on the types of  *)
(* its table and fails on every other type with the unsupported-scalar    *)
(* error, which names the field's locationName and the value's type, and  *)
(* adds nothing.                                                          *)
(***************************************************************************)
\* The table as the claim words it: by underlying type, signed integers of
\* any width.
UnderlyingTextType(value) ==
    \/ value.kind \in {"String", "Bool", "Int", "Int8", "Int16", "Int32",
                       "Int64", "Float32", "Float64"}
    \/ value.type \in {"[]uint8", "time.Time"}

\* The table by exact type.
ExactTextType(value) == value.type \in TextTypes

ValueCount(node) == Len(node.attr) + ChildCount(node)

ScalarOutcome(value, name, before, after, err, supported) ==
    IF supported
    THEN err = NoErr /\ ValueCount(after) = ValueCount(before) + 1
    ELSE err = ScalarErr(name, TypeName(value)) /\ after = before

\* The original statement.
C7_TableByUnderlyingType ==
    [][(FieldStep /\ ScalarMember(CurField)) =>
          ScalarOutcome(CurMember, CurName, frame.child, frame'.child,
                        frame'.err, UnderlyingTextType(CurMember))]_vars

\* Amended: the table is by exact type; of the signed integers only int and
\* int64 are in it.
C7_TableByExactType ==
    [][/\ (FieldStep /\ ScalarMember(CurField)) =>
              ScalarOutcome(CurMember, CurName, frame.child, frame'.child,
                            frame'.err, ExactTextType(CurMember))
       /\ (pc = "buildValue" /\ IsValid(elemOf(params))
              /\ ResolveType(elemOf(params), <<>>) \notin {"structure", "list", "map"}) =>
              ScalarOutcome(elemOf(params), "", result.cur, result'.cur,
                            result'.err, ExactTextType(elemOf(params)))]_vars

C7_Witness ==
    /\ pc = "buildStruct"
    /\ frame.err = ScalarErr("Bad", "int32")
    /\ CurMember.type = "int32"
    /\ frame.child = NewXMLElement("")

(***************************************************************************)
(* C6.  A map in the body, at any depth, makes the build fail.            *)
(***************************************************************************)
\* The value a structure's fields are taken from: itself, or its payload.
BodyOf(value, tag) ==
    IF TagGet(TraitsTag(value, tag), "payload") = "" THEN value
    ELSE PayloadValue(value, TraitsTag(value, tag))

\* A value resolved as a map sits in the body of the value: as the value, as
\* an exported field with no location, as a list item, at any depth.
RECURSIVE MapInBody(_, _)
MapInBody(value, tag) ==
    LET v == elemOf(value)
    IN IF ~IsValid(v) \/ TagGet(tag, "location") # "" THEN FALSE
       ELSE CASE ResolveType(v, tag) = "map" -> TRUE
              [] ResolveType(v, tag) = "structure" ->
                    /\ v.kind = "Struct"
                    /\ BodyOf(v, tag).kind = "Struct"
                    /\ \E i \in DOMAIN BodyOf(v, tag).fields :
                          LET f == BodyOf(v, tag).fields[i]
                          IN ~Unexported(f.name) /\ MapInBody(f.v, f.tag)
              [] ResolveType(v, tag) = "list" ->
                    /\ v.kind = "Slice"
                    /\ \E i \in DOMAIN v.items : MapInBody(v.items[i], <<>>)
              [] OTHER -> FALSE

\* The first node to fail, in field and item order: "map", "other" (a scalar
\* with no text form, a value its tag's type does not fit) or "none".
RECURSIVE FirstFailure(_, _)
RECURSIVE FirstFailureIn(_, _, _)
FirstFailure(value, tag) ==
    LET v == elemOf(value)
    IN IF ~IsValid(v) \/ TagGet(tag, "location") # "" THEN "none"
       ELSE CASE ResolveType(v, tag) = "map" -> "map"
              [] ResolveType(v, tag) = "structure" ->
                    IF v.kind # "Struct" THEN "other"
                    ELSE IF ~IsValid(BodyOf(v, tag)) THEN "none"
                    ELSE IF BodyOf(v, tag).kind # "Struct" THEN "other"
                    ELSE FirstFailureIn(
                            [i \in DOMAIN BodyOf(v, tag).fields |->
                                IF Unexported(BodyOf(v, tag).fields[i].name)
                                THEN Invalid ELSE BodyOf(v, tag).fields[i].v],
                            [i \in DOMAIN BodyOf(v, tag).fields |->
                                BodyOf(v, tag).fields[i].tag], 1)
              [] ResolveType(v, tag) = "list" ->
                    IF ~CanLen(v) THEN "other"
                    ELSE IF LenOf(v) = 0 THEN "none"
                    ELSE IF ~CanIndex(v) THEN "other"
                    ELSE FirstFailureIn(
                            [i \in 1..LenOf(v) |-> IndexOf(v, i)],
                            [i \in 1..LenOf(v) |-> <<>>], 1)
              [] OTHER -> IF v.type \in TextTypes THEN "none" ELSE "other"

FirstFailureIn(values, tags, i) ==
    IF i > Len(values) THEN "none"
    ELSE IF FirstFailure(values[i], tags[i]) # "none"
    THEN FirstFailure(values[i], tags[i])
    ELSE FirstFailureIn(values, tags, i + 1)

BuiltMember(field) ==
    ~Unexported(field.name) /\ TagGet(field.tag, "location") = ""

MemberErr ==
    buildValue(CurMember, frame.child, MemberTag(CurField), frame.ns).err

ItemErr ==
    IF ~CanIndex(frame.value) THEN Panic
    ELSE buildValue(IndexOf(frame.value, frame.i), NewXMLElement(""), <<>>,
                    frame.ns).err

C10_FirstFailureAborts ==
    [][/\ Err # NoErr =>
              /\ Err' = Err
              /\ Root' = Root
              /\ written' = <<>>
              /\ pc' \in {"return", "done"}
       /\ (FieldStep /\ BuiltMember(CurField) /\ MemberErr # NoErr) =>
              /\ frame'.err = MemberErr
              /\ frame'.i = frame.i
              /\ frame'.current = frame.current
              /\ frame'.fieldAdded = frame.fieldAdded
       /\ (ItemStep /\ ItemErr # NoErr) =>
              /\ frame'.err = ItemErr
              /\ frame'.i = frame.i]_vars

C10_Witness ==
    /\ pc = "buildStruct"
    /\ frame.err # NoErr
    /\ frame.i < Len(frame.value.fields)
    /\ BuiltMember(frame.value.fields[frame.i + 1])

====
